---- MODULE Spec2Model ----
(***************************************************************************)
(* The HTTP transport of the hc-hermes Python client                       *)
(* (python-client/src/hc_hermes/http_client.py, exceptions.py, config.py): *)
(* one AsyncHTTPClient with its session, its bearer token and one request  *)
(* in flight, stepped at the request's await points.  The library below    *)
(* the transport (httpx) is the environment: every attempt ends in a       *)
(* response, a timeout, a connection error or another HTTP error.          *)
(***************************************************************************)
EXTENDS Integers, Sequences, FiniteSets, TLC

VARIABLES
    config,        \* HermesConfig: set at construction
    _client,       \* AsyncHTTPClient._client: the httpx session, or none
    _auth_token,   \* AsyncHTTPClient._auth_token
    pc,            \* where the request in flight stands
    retry_count,   \* request(..., retry_count=...) of the innermost call
    headers,       \* request(..., headers=...): the per-call Authorization
    attempts,      \* calls of httpx.AsyncClient.request made by this request
    sent,          \* Authorization header carried by the latest attempt
    timeouts,      \* attempts of this request that ended in TimeoutException
    connects,      \* attempts of this request that ended in ConnectError
    last,          \* outcome of the latest finished attempt
    result,        \* what request() returned or raised
    sleeps,        \* arguments of asyncio.sleep, in order
    lastSet,       \* argument of the latest set_auth_token call
    live,          \* httpx.AsyncClient objects constructed and not yet aclose()d
    scope,         \* where the caller stands with respect to "async with client"
    sync,          \* the call of the synchronous facade in progress, if any
    call,          \* the latest call of a function of the library: arguments, outcome
    clock,         \* datetime.now() and tenacity's clock, in seconds
    index,         \* the hit count of the search index
    validator,     \* HermesValidator: refresh callback, expiry, config.hermes_auth_token
    wait,          \* the wait_for_indexing call in progress
    fs,            \* the workspaces directory: directories and files
    issued,        \* number of uuid4() values drawn so far
    scenario       \* the scenario in progress: kind, position, steps done

\* the state of the transport and of its callers
client_vars == <<config, _client, _auth_token, pc, retry_count, headers, attempts,
                 sent, timeouts, connects, last, result, sleeps, lastSet, live,
                 scope, sync>>

\* the state outside the transport
validator_vars == <<clock, index, validator, wait>>
harness_vars == <<fs, issued, scenario>>
apart == <<call, validator_vars, harness_vars>>

vars == <<client_vars, apart>>

(***************************************************************************)
(* Values                                                                  *)
(***************************************************************************)
\* Python's None where a string is expected
None == "<None>"
\* a header that is not in the header dictionary
Absent == "<absent>"
\* set_auth_token was never called
NeverSet == "<never>"

\* int | None
IntNone == [some |-> FALSE, val |-> 0]
IntSome(n) == [some |-> TRUE, val |-> n]

\* Python truthiness of a str | None
Truthy(s) == s # None /\ s # ""

\* max_retries: int = Field(default=3, ge=0, le=10)
MinRetries == 0
MaxRetriesLimit == 10
\* largest max_retries of the runs that interleave token swaps
MaxRetriesRotation == 2

\* tokens the configuration is built with, and tokens handed to set_auth_token
ConfigTokens == {None, "test-token"}
SwapTokens == {"", "new-token", "newer-token"}
\* Authorization values a caller passes in headers= (Absent: none passed)
CallHeaders == {Absent, "Basic dXNlcg=="}

\* responses of the server: status, body text, Retry-After header
Statuses == {200, 400, 401, 403, 404, 429, 500}
Bodies == { "{\"error\": \"Resource not found\"}",
            "{\"message\": \"Too many requests\"}",
            "Not found",
            "" }
RetryAfters == {Absent, "60", "Wed, 21 Oct 2015 07:28:00 GMT"}

Responses == [kind : {"response"}, status : Statuses, text : Bodies,
              retry_after : RetryAfters]

\* the responses of the runs that interleave token swaps: one body, no Retry-After
RotationResponses == {r \in Responses : r.text = "Not found" /\ r.retry_after = Absent}

Failure(kind) == [kind |-> kind, status |-> 0, text |-> "", retry_after |-> Absent]
NoOutcome == Failure("none")

(***************************************************************************)
(* exceptions.py                                                           *)
(***************************************************************************)
\* a dictionary restricted to some keys
Restrict(f, keys) == [k \in keys |-> f[k]]
NoKwargs == [k \in {} |-> None]

\* an exception that is no HermesError (TypeError, ValueError)
BuiltinError(type, message) ==
    [type |-> type, message |-> message, context |-> NoKwargs, fields |-> NoKwargs]

\* HermesError.__init__(message, **kwargs)
HermesError(type, message, kwargs) ==
    [type |-> type, message |-> message, context |-> kwargs, fields |-> NoKwargs]

\* HermesAPIError.__init__(message, status_code=None, response_body=None, **kwargs)
HermesAPIError(type, message, kwargs) ==
    LET own == {"status_code", "response_body"}
        base == HermesError(type, message, Restrict(kwargs, DOMAIN kwargs \ own))
    IN [base EXCEPT !.fields =
            [status_code |-> IF "status_code" \in DOMAIN kwargs
                             THEN kwargs.status_code ELSE IntNone,
             response_body |-> IF "response_body" \in DOMAIN kwargs
                               THEN kwargs.response_body ELSE None]]

\* HermesAuthError(HermesError): no __init__ of its own
HermesAuthError(message, kwargs) == HermesError("HermesAuthError", message, kwargs)

\* HermesConnectionError(HermesError), HermesTimeoutError(HermesError)
HermesConnectionError(message) == HermesError("HermesConnectionError", message, NoKwargs)
HermesTimeoutError(message) == HermesError("HermesTimeoutError", message, NoKwargs)

\* f(message, status_code=..., **kwargs) with status_code also in kwargs
DuplicateKeyword ==
    BuiltinError("TypeError", "got multiple values for keyword argument 'status_code'")

\* HermesNotFoundError.__init__(message, resource_type=None, resource_id=None, **kwargs):
\*     super().__init__(message, status_code=404, **kwargs)
HermesNotFoundError(message, kwargs) ==
    LET own == {"resource_type", "resource_id"}
        rest == Restrict(kwargs, DOMAIN kwargs \ own)
    IN IF "status_code" \in DOMAIN rest
       THEN DuplicateKeyword
       ELSE LET base == HermesAPIError("HermesNotFoundError", message,
                                       rest @@ [status_code |-> IntSome(404)])
            IN [base EXCEPT !.fields = @ @@
                  [resource_type |-> IF "resource_type" \in DOMAIN kwargs
                                     THEN kwargs.resource_type ELSE None,
                   resource_id |-> IF "resource_id" \in DOMAIN kwargs
                                   THEN kwargs.resource_id ELSE None]]

\* HermesRateLimitError.__init__(message, retry_after=None, **kwargs):
\*     super().__init__(message, status_code=429, **kwargs)
HermesRateLimitError(message, kwargs) ==
    LET own == {"retry_after"}
        rest == Restrict(kwargs, DOMAIN kwargs \ own)
    IN IF "status_code" \in DOMAIN rest
       THEN DuplicateKeyword
       ELSE LET base == HermesAPIError("HermesRateLimitError", message,
                                       rest @@ [status_code |-> IntSome(429)])
            IN [base EXCEPT !.fields = @ @@
                  [retry_after |-> IF "retry_after" \in DOMAIN kwargs
                                   THEN kwargs.retry_after ELSE IntNone]]

(***************************************************************************)
(* config.py: strings are sequences of characters                          *)
(***************************************************************************)
\* longest path and base URL tried
MaxPathLen == 3

LowerCase == <<"a", "b", "c", "d", "e", "f", "g", "h", "i", "j", "k", "l", "m",
               "n", "o", "p", "q", "r", "s", "t", "u", "v", "w", "x", "y", "z">>
UpperCase == <<"A", "B", "C", "D", "E", "F", "G", "H", "I", "J", "K", "L", "M",
               "N", "O", "P", "Q", "R", "S", "T", "U", "V", "W", "X", "Y", "Z">>

\* str.upper()
upper(s) ==
    [i \in 1..Len(s) |->
        IF \E k \in 1..Len(LowerCase) : LowerCase[k] = s[i]
        THEN UpperCase[CHOOSE k \in 1..Len(LowerCase) : LowerCase[k] = s[i]]
        ELSE s[i]]

\* str.lstrip("/") that removes one slash only
lstrip_Once(s) == IF s # <<>> /\ Head(s) = "/" THEN Tail(s) ELSE s

\* str.lstrip("/")
RECURSIVE lstrip(_)
lstrip(s) == IF s # <<>> /\ Head(s) = "/" THEN lstrip(Tail(s)) ELSE s

\* str.rstrip("/")
RECURSIVE rstrip(_)
rstrip(s) == IF s # <<>> /\ s[Len(s)] = "/" THEN rstrip(SubSeq(s, 1, Len(s) - 1)) ELSE s

\* valid_levels = {"DEBUG", "INFO", "WARNING", "ERROR", "CRITICAL"}
valid_levels == { <<"D", "E", "B", "U", "G">>, <<"I", "N", "F", "O">>,
                  <<"W", "A", "R", "N", "I", "N", "G">>, <<"E", "R", "R", "O", "R">>,
                  <<"C", "R", "I", "T", "I", "C", "A", "L">> }

\* a validator that compares the level as given
validate_log_level_AsGiven(v) == [ok |-> v \in valid_levels, value |-> v]

\* HermesConfig.validate_log_level
validate_log_level(v) == [ok |-> upper(v) \in valid_levels, value |-> upper(v)]

\* HermesConfig.validate_base_url
validate_base_url(v) == rstrip(v)

\* timeout: float = Field(default=30.0, ge=0)
ValidTimeout(timeout) == timeout >= 0

\* max_retries: int = Field(default=3, ge=0, le=10)
ValidRetries(max_retries) == max_retries >= MinRetries /\ max_retries <= MaxRetriesLimit

\* HermesConfig(timeout=..., max_retries=..., log_level=...): the configuration,
\* or pydantic's ValidationError
HermesConfig(timeout, max_retries, log_level) ==
    IF ValidTimeout(timeout) /\ ValidRetries(max_retries) /\ validate_log_level(log_level).ok
    THEN [ok |-> TRUE, error |-> None,
          config |-> [timeout |-> timeout, max_retries |-> max_retries,
                      log_level |-> validate_log_level(log_level).value]]
    ELSE [ok |-> FALSE, error |-> "ValidationError",
          config |-> [timeout |-> 0, max_retries |-> 0, log_level |-> <<>>]]

\* HermesConfig.get_api_url(path) of a configuration with this base URL and version
get_api_url(base_url, api_version, path) ==
    base_url \o <<"/", "a", "p", "i", "/">> \o api_version \o <<"/">> \o lstrip(path)

\* arguments tried
Timeouts == {-1, 0, 30}
RetryCounts == (MinRetries - 2)..(MaxRetriesLimit + 2)
LogLevels == valid_levels \cup { <<"d", "e", "b", "u", "g">>, <<"I", "n", "f", "o">>,
                                 <<"I", "N", "V", "A", "L", "I", "D">>, <<>> }
\* sequences over an alphabet, up to a length
SeqsUpTo(alphabet, n) == UNION {[1..k -> alphabet] : k \in 0..n}
Paths == SeqsUpTo({"/", "d"}, MaxPathLen)
BaseUrls == SeqsUpTo({"/", "h"}, MaxPathLen)
ApiVersions == { <<"v", "2">>, <<"v", "1">> }

NoCall == [op |-> "none"]

(***************************************************************************)
(* models.py: the body of a partial update                                 *)
(***************************************************************************)
\* a keyword argument or a field: None, a value, or a list of nested models
GivenNone == [none |-> TRUE]
Given(v) == [none |-> FALSE, value |-> v]
GivenList(l) == [none |-> FALSE, items |-> l]

\* the fields DocumentPatchRequest declares
PatchFields == {"approvers", "approver_groups", "contributors", "custom_fields",
                "owners", "status", "summary", "title"}

\* DocumentStatus
DocumentStatuses == {"Unspecified", "WIP", "In-Review", "Approved", "Obsolete"}

\* DocumentPatchRequest(**fields): extra="forbid", status an enumeration; every
\* field not given is None
DocumentPatchRequest(fields) ==
    IF /\ DOMAIN fields \subseteq PatchFields
       /\ ("status" \in DOMAIN fields /\ ~fields["status"].none)
             => fields["status"].value \in DocumentStatuses
    THEN [ok |-> TRUE,
          model |-> [f \in PatchFields |->
                        IF f \in DOMAIN fields THEN fields[f] ELSE GivenNone]]
    ELSE [ok |-> FALSE, model |-> << >>]

\* a nested model, dumped with exclude_none=True
dump_nested(m) == [k \in {j \in DOMAIN m : ~m[j].none} |-> m[k]]

\* model_dump() that keeps the None fields
model_dump_KeepNone(model) == model

\* patch_data.model_dump(exclude_none=True)
model_dump(model) ==
    [f \in {g \in DOMAIN model : ~model[g].none} |->
        IF f = "custom_fields"
        THEN GivenList([i \in 1..Len(model[f].items) |-> dump_nested(model[f].items[i])])
        ELSE model[f]]

\* keyword arguments tried: per name, the values it may be given
KwargValues(name) ==
    CASE name = "title" -> {GivenNone, Given("Updated Title")}
      [] name = "summary" -> {GivenNone, Given("A summary")}
      [] name = "status" -> {GivenNone, Given("Approved"), Given("Published")}
      [] name = "custom_fields" ->
            {GivenNone,
             GivenList(<<[name |-> Given("team"), display_name |-> GivenNone,
                          value |-> Given("core")]>>)}
      [] OTHER -> {Given("RFC")}
KwargNames == {"title", "summary", "status", "custom_fields", "doc_type"}
Kwargs ==
    UNION {{fields \in [names -> UNION {KwargValues(n) : n \in names}] :
               \A n \in names : fields[n] \in KwargValues(n)} : names \in SUBSET KwargNames}

(***************************************************************************)
(* models.py: the number of a document                                     *)
(***************************************************************************)
\* product: Product | None
NoProduct == [present |-> FALSE, abbreviation |-> ""]
Product(abbreviation) == [present |-> TRUE, abbreviation |-> abbreviation]

\* keyword arguments tried: the raw number is given under the alias objectID,
\* or under the name of the field
Products == {NoProduct, Product("TF"), Product("VLT"), Product("")}
DocumentNumbers == {IntNone, IntSome(0), IntSome(1), IntSome(123), IntSome(456)}
RawNumbers == {Absent, "TF-789", "VLT-1", ""}
DocumentKwargs ==
    [product : Products, document_number : DocumentNumbers,
     objectID : RawNumbers, doc_number : {Absent, "TF-789"}]

\* Document(title=..., **kwargs): doc_number is filled from its alias objectID
\* only; a keyword doc_number is an extra one and is ignored
Document_init(kwargs) ==
    [product |-> kwargs.product,
     document_number |-> kwargs.document_number,
     doc_number |-> IF kwargs.objectID # Absent THEN kwargs.objectID ELSE None]

\* a property that prefers the raw number
full_doc_number_RawFirst(doc) ==
    IF doc.doc_number # None
    THEN doc.doc_number
    ELSE IF doc.product.present /\ doc.document_number.some /\ doc.document_number.val # 0
    THEN doc.product.abbreviation \o "-" \o ToString(doc.document_number.val)
    ELSE None

\* Document.full_doc_number: a product is truthy, a number is truthy unless
\* it is None or 0
full_doc_number(doc) ==
    IF doc.product.present /\ doc.document_number.some /\ doc.document_number.val # 0
    THEN doc.product.abbreviation \o "-" \o ToString(doc.document_number.val)
    ELSE doc.doc_number

(***************************************************************************)
(* http_client.py: pure parts                                              *)
(***************************************************************************)
\* response.json() of the bodies above, where the body is a JSON object
IsJsonObject(text) ==
    text \in { "{\"error\": \"Resource not found\"}",
               "{\"message\": \"Too many requests\"}",
               "{\"id\": 1, \"title\": \"Test Document\", \"status\": \"WIP\"}" }
Json(text) ==
    CASE text = "{\"error\": \"Resource not found\"}" -> [error |-> "Resource not found"]
      [] text = "{\"message\": \"Too many requests\"}" -> [message |-> "Too many requests"]
      [] text = "{\"id\": 1, \"title\": \"Test Document\", \"status\": \"WIP\"}" ->
            [id |-> 1, title |-> "Test Document", status |-> "WIP"]

\* dict.get(key, default)
Get(d, key, default) == IF key \in DOMAIN d THEN d[key] ELSE default

\* int(s) of a header value: decimal literals parse, anything else is a ValueError
IsIntLiteral(s) == s \in {"60"}
Int_(s) == CASE s = "60" -> 60

\* the Authorization entry of _get_headers()
_get_headers(token) == IF Truthy(token) THEN "Bearer " \o token ELSE Absent

\* request_headers = self._get_headers(); if headers: request_headers.update(headers)
RequestHeaders(token, call_headers) ==
    IF call_headers # Absent THEN call_headers ELSE _get_headers(token)

\* self._client.request(..., headers=request_headers): httpx sends the session's
\* headers overlaid with the request's
Carried(session, request_headers) ==
    IF request_headers # Absent THEN request_headers ELSE session.Authorization

NoClient == [open |-> FALSE, Authorization |-> Absent]

\* a start() that has lost its guard
Opens_Always(session) == TRUE

\* start(): "if self._client is not None: return"
Opens(session) == ~session.open

\* start(): a new session unless one is open
Started(session, token) ==
    IF Opens(session)
    THEN [open |-> TRUE, Authorization |-> _get_headers(token)]
    ELSE session

\* the sessions alive after start()
LiveAfterStart(session, n) == IF Opens(session) THEN n + 1 ELSE n

\* the sessions alive after close(): "if self._client is not None: aclose()"
LiveAfterClose(session, n) == IF session.open THEN n - 1 ELSE n

\* error_message of _handle_error_response
ErrorMessage(response) ==
    IF IsJsonObject(response.text)
    THEN Get(Json(response.text), "error",
             Get(Json(response.text), "message", response.text))
    ELSE IF response.text # "" THEN response.text
         ELSE "HTTP " \o ToString(response.status) \o " error"

\* a mapping that forgets 403: only 401 is an authentication error
_handle_error_response_Only401(response) ==
    LET error_message == ErrorMessage(response)
        kw == [status_code |-> IntSome(response.status), response_body |-> error_message]
    IN  IF response.status = 401
        THEN HermesAuthError("Authentication failed: " \o error_message, kw)
        ELSE HermesAPIError("HermesAPIError", error_message, kw)

\* _handle_error_response(response): the exception it raises
_handle_error_response(response) ==
    LET status_code == response.status
        error_message == ErrorMessage(response)
        kw == [status_code |-> IntSome(status_code), response_body |-> error_message]
        retry_after == response.retry_after
    IN  IF status_code = 401
        THEN HermesAuthError("Authentication failed: " \o error_message, kw)
        ELSE IF status_code = 403
        THEN HermesAuthError("Permission denied: " \o error_message, kw)
        ELSE IF status_code = 404
        THEN HermesNotFoundError(error_message, kw)
        ELSE IF status_code = 429
        THEN IF retry_after # Absent /\ retry_after # "" /\ ~IsIntLiteral(retry_after)
             THEN BuiltinError("ValueError", "invalid literal for int() with base 10")
             ELSE HermesRateLimitError(error_message,
                    kw @@ [retry_after |-> IF retry_after # Absent /\ retry_after # ""
                                           THEN IntSome(Int_(retry_after))
                                           ELSE IntNone])
        ELSE HermesAPIError("HermesAPIError", error_message, kw)

\* retry decisions that are off by one: one retry too few, one too many
ShouldRetry_OneFewer(count, max_retries) == count + 1 < max_retries
ShouldRetry_OneMore(count, max_retries) == count <= max_retries

\* if retry_count < self.config.max_retries
ShouldRetry(count, max_retries) == count < max_retries

\* a backoff that grows linearly
Backoff_Linear(count) == count + 1

\* 2**retry_count
Backoff(count) == 2 ^ count

NoError == BuiltinError("none", "")
Returned(response) == [raised |-> FALSE, response |-> response, error |-> NoError]
Raised(error) == [raised |-> TRUE, response |-> NoOutcome, error |-> error]
NoResult == Returned(NoOutcome)

(***************************************************************************)
(* client_async.py and client.py: a facade method and its blocking wrapper  *)
(***************************************************************************)
\* responses to the calls of the synchronous facade
SyncResponses ==
    [kind : {"response"}, status : {200, 404, 500},
     text : { "{\"id\": 1, \"title\": \"Test Document\", \"status\": \"WIP\"}",
              "{\"error\": \"Resource not found\"}",
              "Not found" },
     retry_after : {Absent}]

NoDocument == [title |-> None, status |-> None]
FacadeReturned(document) == [raised |-> FALSE, error |-> NoError, document |-> document]
FacadeRaised(error) == [raised |-> TRUE, error |-> error, document |-> NoDocument]

\* Document.model_validate(data): title is required, status defaults to WIP
Document(data) ==
    IF "title" \in DOMAIN data
    THEN FacadeReturned([title |-> data.title, status |-> Get(data, "status", "WIP")])
    ELSE FacadeRaised(BuiltinError("ValidationError", "title: Field required"))

\* AsyncDocumentsAPI.get: what it returns or raises, given what request() did
documents_get(outcome) ==
    IF outcome.raised THEN FacadeRaised(outcome.error)
    ELSE IF ~IsJsonObject(outcome.response.text)
    THEN FacadeRaised(BuiltinError("JSONDecodeError", "Expecting value"))
    ELSE Document(Json(outcome.response.text))

NoSync == [active |-> FALSE, stale |-> FALSE, invocations |-> 0, attempts |-> 0,
           done |-> FALSE, outcome |-> FacadeReturned(NoDocument)]

\* the attempts a synchronous call has seen, after one more attempt
SyncAfterAttempt(facade) ==
    IF facade.active THEN [facade EXCEPT !.attempts = @ + 1] ELSE facade

(***************************************************************************)
(* testing/python/validation.py: HermesValidator                           *)
(***************************************************************************)
\* stop=stop_after_delay(120), wait=wait_fixed(5)
MaxDelay == 120
PollInterval == 5
\* timedelta(minutes=5), timedelta(hours=1), in seconds
RefreshMargin == 300
RefreshedLifetime == 3600
\* config.indexer_max_wait
IndexerMaxWait == 120
\* documents the indexer gets to index
MaxIndexed == 2

\* the subclasses of HermesError
IsHermesError(type) ==
    type \in {"HermesError", "HermesAPIError", "HermesAuthError", "HermesNotFoundError",
              "HermesValidationError", "HermesConnectionError", "HermesTimeoutError",
              "HermesRateLimitError"}

\* validation.ValidationError(Exception)
ValidationError(message) == BuiltinError("validation.ValidationError", message)

\* "event loop" in str(e).lower() or "closed" in str(e).lower()
MentionsEventLoop(message) ==
    message \in {"Event loop is closed",
                 "asyncio.run() cannot be called from a running event loop"}

\* what client.search.query raises when it raises: the errors of the transport,
\* an event-loop error of asyncio.run, a body that is no JSON
SearchFailures ==
    {_handle_error_response(r) : r \in {q \in RotationResponses : q.status >= 400}}
    \cup {HermesTimeoutError("Request timed out"),
          HermesConnectionError("Connection failed"),
          HermesAPIError("HermesAPIError", "HTTP error", NoKwargs),
          BuiltinError("RuntimeError",
                       "asyncio.run() cannot be called from a running event loop"),
          BuiltinError("JSONDecodeError", "Expecting value")}

\* the except clauses of wait_for_indexing: what the attempt raises
AttemptError(e) ==
    IF e.type = "RuntimeError"
    THEN IF MentionsEventLoop(e.message)
         THEN ValidationError("Event loop error (will retry)")
         ELSE e
    ELSE IF IsHermesError(e.type)
    THEN ValidationError("Failed to query documents")
    ELSE e

\* tenacity, stop_after_delay: seconds_since_start >= max_delay
StopAfterDelay(start, now) == now - start >= MaxDelay

\* a refresh that waits for the token to have expired
RefreshDue_Expired(expires_at, now) == now >= expires_at

\* datetime.now() >= (self._token_expires_at - timedelta(minutes=5))
RefreshDue(expires_at, now) == now >= expires_at - RefreshMargin

\* HermesValidator.__init__: no callback, no expiry; config.hermes_auth_token
\* no request issued yet
NoRequest == [op |-> "none", token |-> None, raised |-> FALSE, value |-> None]

\* HermesValidator.__init__: no callback, no expiry; config.hermes_auth_token,
\* and self.client built with it.  invoked counts the calls of the callback,
\* refresh tells how the latest _refresh_token_if_needed went, refreshed whether
\* a refresh ever succeeded, requested is the latest request issued
NewValidator ==
    [_token_refresh_callback |-> FALSE, _token_expires_at |-> IntNone,
     hermes_auth_token |-> "test-token", invoked |-> 0,
     client_token |-> "test-token", refresh |-> "none", refreshed |-> FALSE,
     requested |-> NoRequest]

\* a refresh that gives the token another hour also when the callback raised
_refresh_token_if_needed_Postponed(v, now, fresh) ==
    IF ~v._token_refresh_callback \/ ~v._token_expires_at.some
    THEN [v EXCEPT !.refresh = "none"]
    ELSE IF RefreshDue(v._token_expires_at.val, now)
    THEN IF fresh = None
         THEN [v EXCEPT !.invoked = @ + 1, !.refresh = "failed",
                        !._token_expires_at = IntSome(now + RefreshedLifetime)]
         ELSE [v EXCEPT !.invoked = @ + 1, !.refresh = "refreshed",
                        !.refreshed = TRUE,
                        !.hermes_auth_token = fresh,
                        !._token_expires_at = IntSome(now + RefreshedLifetime)]
    ELSE [v EXCEPT !.refresh = "none"]

\* HermesValidator._refresh_token_if_needed, the callback returning fresh or
\* raising
_refresh_token_if_needed(v, now, fresh) ==
    IF ~v._token_refresh_callback \/ ~v._token_expires_at.some
    THEN [v EXCEPT !.refresh = "none"]
    ELSE IF RefreshDue(v._token_expires_at.val, now)
    THEN IF fresh = None
         THEN [v EXCEPT !.invoked = @ + 1, !.refresh = "failed"]
         ELSE [v EXCEPT !.invoked = @ + 1, !.refresh = "refreshed",
                        !.refreshed = TRUE,
                        !.hermes_auth_token = fresh,
                        !._token_expires_at = IntSome(now + RefreshedLifetime)]
    ELSE [v EXCEPT !.refresh = "none"]

\* the attempt of wait_for_indexing up to its search request: the refresh, then
\* Hermes(auth_token=config.hermes_auth_token).search.query("*")
BeginsAttempt(v, now, fresh) ==
    LET after == _refresh_token_if_needed(v, now, fresh)
    IN [after EXCEPT !.requested = [op |-> "wait_for_indexing",
                                    token |-> after.hermes_auth_token,
                                    raised |-> FALSE, value |-> None]]

\* the methods that query through a client built for the call
FreshClientCalls == {"get_document_stats", "assert_search_results",
                     "assert_document_exists", "assert_document_content"}

\* what a method that wraps a client call in `except HermesError` raises when
\* the client call raised e
Wrapped(e) == IF IsHermesError(e.type) THEN "validation.ValidationError" ELSE e.type

\* the failures tried outside the indexing poll: a connection error, a 404
ValidatorFailures ==
    {HermesConnectionError("Connection failed")}
    \cup {_handle_error_response(r) : r \in {q \in RotationResponses : q.status = 404}}
\* what a client call does: it returns (NoError), or raises one of these
ValidatorAnswers == ValidatorFailures \cup {NoError}

\* what the callback does: a fresh token, or None for an exception
CallbackOutcomes == {"fresh-token", None}

\* arguments and durations tried
ExpectedCounts == {1, 2}
WaitTimeouts == {IntNone, IntSome(10)}
ExpiresIn == {100, 330, 3600}
PollDurations == {1, 30}

NoWait ==
    [pc |-> "idle", expected_count |-> 0, timeout |-> IntNone, start |-> 0,
     polls |-> 0, result |-> IntNone, error |-> NoError]

(***************************************************************************)
(* testing/python/seeding.py, generators.py: the workspaces                *)
(***************************************************************************)
\* largest count tried, and the uuids a run may draw
MaxCount == 3
MaxUuids == 3

\* WorkspaceName; the subdirectories of a workspace
Workspaces == {"testing", "docs"}
Subdirs == {"rfcs", "prds", "meetings", "drafts", "docs"}

\* f"{i:03d}"
Pad3(i) ==
    IF i < 10 THEN "00" \o ToString(i)
    ELSE IF i < 100 THEN "0" \o ToString(i)
    ELSE ToString(i)

\* a file: its path below the workspaces directory, the front matter written
File(path, content) == [path |-> path, content |-> content]
FrontMatter(doc_type, uuid, title, status, author) ==
    [doc_type |-> doc_type, uuid |-> uuid, title |-> title, status |-> status,
     author |-> author]
\* a file that is no generated document
NoContent == FrontMatter(None, 0, None, None, None)

\* DocumentGenerator.generate_rfc, generate_prd, generate_meeting_notes: the
\* uuid is the one given, or else a new one (new_uuid)
generate_rfc(doc_uuid, new_uuid, title, status, author) ==
    FrontMatter("RFC", IF doc_uuid # 0 THEN doc_uuid ELSE new_uuid, title, status, author)
generate_prd(new_uuid, title, status, author) ==
    FrontMatter("PRD", new_uuid, title, status, author)
generate_meeting_notes(new_uuid, title, attendees) ==
    FrontMatter("Meeting Notes", new_uuid, title, "Approved", attendees)

EmptyFs == [dirs |-> {}, files |-> {}]

Range(seq) == {seq[k] : k \in 1..Len(seq)}
PathsOf(files) == {f.path : f \in files}

\* Path.write_text for each of the files written: a file of the same path is
\* replaced
Write(files, written) == {f \in files : f.path \notin PathsOf(written)} \cup written

\* the directories above a path
Ancestors(path) == {SubSeq(path, 1, k) : k \in 1..(Len(path) - 1)}

\* WorkspaceSeeder._ensure_workspace_structure
_ensure_workspace_structure(dirs, workspace) ==
    dirs \cup {<<workspace>>} \cup {<<workspace, subdir>> : subdir \in Subdirs}

\* ws_path.glob("*"): the entries directly below the workspace
rglob_Children(tree, ws) ==
    {path \in PathsOf(tree.files) \cup tree.dirs : Len(path) = 2 /\ path[1] = ws}

\* ws_path.rglob("*"): every entry below the workspace
rglob(tree, ws) ==
    {path \in PathsOf(tree.files) \cup tree.dirs : Len(path) > 1 /\ path[1] = ws}

\* WorkspaceSeeder.clean_workspace: of each workspace that exists, every entry
\* of rglob that is a file is unlinked
clean_workspace(tree, workspace) ==
    LET workspaces == IF workspace = "all" THEN {"testing", "docs"} ELSE {workspace}
        unlinked == UNION {rglob(tree, ws) : ws \in {w \in workspaces : <<w>> \in tree.dirs}}
    IN [tree EXCEPT !.files = {f \in @ : f.path \notin unlinked}]

\* seed_basic with three equal shares
seed_basic_EqualThirds(tree, drawn, count, workspace, clean) ==
    LET cleaned == IF clean THEN clean_workspace(tree, workspace) ELSE tree
        rfc_count == count \div 3
        rfcs == [i \in 1..rfc_count |->
                   File(<<workspace, "rfcs", "RFC-" \o Pad3(i) \o "-test-design.md">>,
                        generate_rfc(0, drawn + i,
                                     "RFC-" \o Pad3(i) \o ": Test Distributed System Design",
                                     "WIP", "alice@example.com"))]
    IN [fs |-> [dirs |-> _ensure_workspace_structure(cleaned.dirs, workspace),
                files |-> Write(cleaned.files, Range(rfcs))],
        issued |-> drawn + rfc_count,
        out |-> [k \in 1..Len(rfcs) |-> rfcs[k].path]]

\* WorkspaceSeeder.seed_basic: the tree afterwards, the uuids drawn, the list
\* returned
seed_basic(tree, drawn, count, workspace, clean) ==
    LET cleaned == IF clean THEN clean_workspace(tree, workspace) ELSE tree
        rfc_count == count \div 3
        prd_count == count \div 3
        meeting_count == count - rfc_count - prd_count
        rfcs == [i \in 1..rfc_count |->
                   File(<<workspace, "rfcs", "RFC-" \o Pad3(i) \o "-test-design.md">>,
                        generate_rfc(0, drawn + i,
                                     "RFC-" \o Pad3(i) \o ": Test Distributed System Design",
                                     "WIP", "alice@example.com"))]
        prds == [i \in 1..prd_count |->
                   File(<<workspace, "prds", "PRD-" \o Pad3(i) \o "-test-feature.md">>,
                        generate_prd(drawn + rfc_count + i,
                                     "PRD-" \o Pad3(i) \o ": Test Feature Requirements",
                                     "WIP", "bob@example.com"))]
        meetings == [i \in 1..meeting_count |->
                   File(<<workspace, "meetings", "MEET-" \o Pad3(i) \o "-team-sync.md">>,
                        generate_meeting_notes(drawn + rfc_count + prd_count + i,
                                     "Meeting-" \o Pad3(i) \o ": Test Team Sync",
                                     "alice@example.com, bob@example.com"))]
        created_files == rfcs \o prds \o meetings
        readme == File(<<workspace, "README.md">>, NoContent)
    IN [fs |-> [dirs |-> _ensure_workspace_structure(cleaned.dirs, workspace),
                files |-> Write(Write(cleaned.files, Range(created_files)), {readme})],
        issued |-> drawn + Len(created_files),
        out |-> [k \in 1..Len(created_files) |-> created_files[k].path]]

\* seed_migration that lets each copy draw a uuid of its own
seed_migration_OwnUuids(tree, drawn, count, source_workspace, target_workspace, clean) ==
    LET cleaned == IF clean THEN clean_workspace(tree, "all") ELSE tree
        dirs == _ensure_workspace_structure(
                    _ensure_workspace_structure(cleaned.dirs, source_workspace),
                    target_workspace)
        source == [i \in 1..count |->
                   File(<<source_workspace, "rfcs", "RFC-" \o Pad3(i) \o "-migration.md">>,
                        generate_rfc(0, drawn + 2 * i - 1,
                                     "RFC-" \o Pad3(i) \o ": Migration Test Document",
                                     "Approved", "alice@example.com"))]
        target == [i \in 1..count |->
                   File(<<target_workspace, "rfcs", "RFC-" \o Pad3(i) \o "-migration.md">>,
                        generate_rfc(0, drawn + 2 * i,
                                     "RFC-" \o Pad3(i) \o ": Migration Test Document (Modified)",
                                     "In-Review", "bob@example.com"))]
    IN [fs |-> [dirs |-> dirs,
                files |-> Write(Write(cleaned.files, Range(source)), Range(target))],
        issued |-> drawn + 2 * count,
        out |-> <<[k \in 1..count |-> source[k].path],
                  [k \in 1..count |-> target[k].path]>>]

\* WorkspaceSeeder.seed_migration: one uuid per i, given to both copies
seed_migration(tree, drawn, count, source_workspace, target_workspace, clean) ==
    LET cleaned == IF clean THEN clean_workspace(tree, "all") ELSE tree
        dirs == _ensure_workspace_structure(
                    _ensure_workspace_structure(cleaned.dirs, source_workspace),
                    target_workspace)
        source == [i \in 1..count |->
                   File(<<source_workspace, "rfcs", "RFC-" \o Pad3(i) \o "-migration.md">>,
                        generate_rfc(drawn + i, 0,
                                     "RFC-" \o Pad3(i) \o ": Migration Test Document",
                                     "Approved", "alice@example.com"))]
        target == [i \in 1..count |->
                   File(<<target_workspace, "rfcs", "RFC-" \o Pad3(i) \o "-migration.md">>,
                        generate_rfc(drawn + i, 0,
                                     "RFC-" \o Pad3(i) \o ": Migration Test Document (Modified)",
                                     "In-Review", "bob@example.com"))]
    IN [fs |-> [dirs |-> dirs,
                files |-> Write(Write(cleaned.files, Range(source)), Range(target))],
        issued |-> drawn + count,
        out |-> <<[k \in 1..count |-> source[k].path],
                  [k \in 1..count |-> target[k].path]>>]

\* files that are there without the seeder: one in a subdirectory, one
\* deeper, one in the other workspace
StrayPaths == { <<"testing", "rfcs", "old.md">>,
                <<"testing", "docs", "guides", "setup.md">>,
                <<"docs", "rfcs", "RFC-001-migration.md">> }

\* config.test_authors, list(DocumentStatus)
test_authors == <<"alice@example.com", "bob@example.com", "charlie@example.com",
                  "diana@example.com">>
statuses == <<"WIP", "In-Review", "Approved", "Obsolete">>

\* WorkspaceSeeder.seed_multi_author: authors and statuses rotate with i, the
\* type of document with i % 3
seed_multi_author(tree, drawn, count, workspace, clean) ==
    LET cleaned == IF clean THEN clean_workspace(tree, workspace) ELSE tree
        author(i) == test_authors[(i % 4) + 1]
        created_files == [i \in 1..count |->
            IF i % 3 = 0
            THEN File(<<workspace, "rfcs", "RFC-" \o Pad3(i) \o "-multi-author.md">>,
                      generate_rfc(0, drawn + i, "RFC-" \o Pad3(i) \o ": Multi-Author Test",
                                   statuses[(i % 4) + 1], author(i)))
            ELSE IF i % 3 = 1
            THEN File(<<workspace, "prds", "PRD-" \o Pad3(i) \o "-multi-author.md">>,
                      generate_prd(drawn + i, "PRD-" \o Pad3(i) \o ": Multi-Author Feature",
                                   statuses[(i % 4) + 1], author(i)))
            ELSE File(<<workspace, "meetings", "MEET-" \o Pad3(i) \o "-multi-author.md">>,
                      generate_meeting_notes(drawn + i,
                                   "Meeting-" \o Pad3(i) \o ": Multi-Author Sync",
                                   author(i) \o ", " \o author(i + 1)))]
    IN [fs |-> [dirs |-> _ensure_workspace_structure(cleaned.dirs, workspace),
                files |-> Write(cleaned.files, Range(created_files))],
        issued |-> drawn + count,
        out |-> [k \in 1..count |-> created_files[k].path]]

(***************************************************************************)
(* testing/python/scenarios.py: ScenarioRunner                             *)
(***************************************************************************)
\* scenarios one runner is followed through
MaxRuns == 2

ScenarioKinds == {"basic", "migration", "multi_author"}
\* counts tried: one document, and one of each type
ScenarioCounts == {1, 3}

\* no scenario yet; pc is the step to come, steps the steps done so far
NoScenario ==
    [kind |-> "none", pc |-> "idle", steps |-> << >>, runs |-> 0, count |-> 0,
     clean |-> FALSE, wait_for_indexing |-> TRUE, expected |-> 0, poll |-> "none",
     stats |-> IntNone, returned |-> IntNone, error |-> None]

(***************************************************************************)
(* Construction                                                            *)
(***************************************************************************)
\* AsyncHTTPClient(config)
Constructed(cfg) ==
    /\ config = cfg
    /\ _client = NoClient
    /\ _auth_token = config.auth_token
    /\ pc = "idle"
    /\ retry_count = 0
    /\ headers = Absent
    /\ attempts = 0
    /\ sent = Absent
    /\ timeouts = 0
    /\ connects = 0
    /\ last = NoOutcome
    /\ result = NoResult
    /\ sleeps = <<>>
    /\ lastSet = NeverSet
    /\ live = 0
    /\ scope = "outside"
    /\ sync = NoSync
    /\ call = NoCall
    /\ clock = 0
    /\ index = 0
    /\ validator = NewValidator
    /\ wait = NoWait
    /\ fs = EmptyFs
    /\ issued = 0
    /\ scenario = NoScenario

\* every configuration HermesConfig accepts
Init ==
    \E cfg \in [auth_token : ConfigTokens, max_retries : MinRetries..MaxRetriesLimit] :
        Constructed(cfg)

\* configurations with few retries, for the runs that interleave token swaps
InitRotation ==
    \E cfg \in [auth_token : ConfigTokens, max_retries : MinRetries..MaxRetriesRotation] :
        Constructed(cfg)

(***************************************************************************)
(* Operations                                                              *)
(***************************************************************************)
request_vars == <<pc, retry_count, headers, attempts, sent, timeouts,
                  connects, last, result, sleeps>>

\* start()
start ==
    /\ _client' = Started(_client, _auth_token)
    /\ live' = LiveAfterStart(_client, live)
    /\ UNCHANGED <<apart, config, _auth_token, lastSet, request_vars>>

\* close()
close ==
    /\ _client' = IF _client.open THEN NoClient ELSE _client
    /\ live' = LiveAfterClose(_client, live)
    /\ UNCHANGED <<apart, config, _auth_token, lastSet, request_vars>>

\* await client.start()
Start == start /\ UNCHANGED <<scope, sync>>

\* await client.close()
Close == close /\ UNCHANGED <<scope, sync>>

\* async with client: __aenter__ starts the session
AEnter ==
    /\ scope # "inside"
    /\ scope' = "inside"
    /\ start
    /\ UNCHANGED sync

\* the end of the async with block: __aexit__ closes the session
AExit ==
    /\ scope = "inside"
    /\ scope' = "left"
    /\ close
    /\ UNCHANGED sync

\* a swap that updates the open session only and leaves the stored token alone
SetAuthToken_SessionOnly(token) ==
    /\ _client' = IF _client.open
                  THEN [_client EXCEPT !.Authorization = "Bearer " \o token]
                  ELSE _client
    /\ lastSet' = token
    /\ UNCHANGED <<apart, config, _auth_token, request_vars, live, scope, sync>>

\* a swap that also writes the token into the configuration
SetAuthToken_WritesConfig(token) ==
    /\ _auth_token' = token
    /\ config' = [config EXCEPT !.auth_token = token]
    /\ _client' = IF _client.open
                  THEN [_client EXCEPT !.Authorization = "Bearer " \o token]
                  ELSE _client
    /\ lastSet' = token
    /\ UNCHANGED <<apart, request_vars, live, scope, sync>>

\* client.set_auth_token(token)
SetAuthToken(token) ==
    /\ _auth_token' = token
    /\ _client' = IF _client.open
                  THEN [_client EXCEPT !.Authorization = "Bearer " \o token]
                  ELSE _client
    /\ lastSet' = token
    /\ UNCHANGED <<apart, config, request_vars, live, scope, sync>>

\* request(), lines 120-143: open a session if there is none, merge the headers
\* and hand the attempt to httpx
Enter(count, call_headers) ==
    /\ _client' = Started(_client, _auth_token)
    /\ live' = LiveAfterStart(_client, live)
    /\ retry_count' = count
    /\ headers' = call_headers
    /\ attempts' = attempts + 1
    /\ sent' = Carried(_client', RequestHeaders(_auth_token, call_headers))
    /\ pc' = "awaiting"

\* await client.request(method, path, headers=h)
Request(h) ==
    /\ pc = "idle"
    /\ Enter(0, h)
    /\ UNCHANGED <<apart, config, _auth_token, lastSet, timeouts, connects, last,
                   result, sleeps, scope, sync>>

\* a transport that also retries 5xx responses
Respond_Retry5xx(response) ==
    /\ pc = "awaiting"
    /\ last' = response
    /\ IF response.status >= 500 /\ ShouldRetry(retry_count, config.max_retries)
       THEN /\ sleeps' = Append(sleeps, Backoff(retry_count))
            /\ pc' = "sleeping"
            /\ UNCHANGED result
       ELSE /\ UNCHANGED sleeps
            /\ IF response.status >= 400
               THEN /\ result' = Raised(_handle_error_response(response))
                    /\ pc' = "raised"
               ELSE /\ result' = Returned(response)
                    /\ pc' = "returned"
    /\ UNCHANGED <<live, scope, sync, apart, config, _client, _auth_token, lastSet, retry_count, headers,
                   attempts, sent, timeouts, connects>>

\* the attempt ends with a response
Respond(response) ==
    /\ pc = "awaiting"
    /\ last' = response
    /\ IF response.status >= 400
       THEN /\ result' = Raised(_handle_error_response(response))
            /\ pc' = "raised"
       ELSE /\ result' = Returned(response)
            /\ pc' = "returned"
    /\ UNCHANGED <<live, scope, sync, apart, config, _client, _auth_token, lastSet, retry_count, headers,
                   attempts, sent, timeouts, connects>>
    /\ UNCHANGED sleeps

\* a transport that counts the retries of each failure kind on its own
TransportFailure_PerKind(kind, error) ==
    /\ pc = "awaiting"
    /\ last' = Failure(kind)
    /\ IF ShouldRetry(IF kind = "timeout" THEN timeouts ELSE connects, config.max_retries)
       THEN /\ sleeps' = Append(sleeps, Backoff(retry_count))
            /\ pc' = "sleeping"
            /\ UNCHANGED result
       ELSE /\ result' = Raised(error)
            /\ pc' = "raised"
            /\ UNCHANGED sleeps
    /\ UNCHANGED <<live, scope, sync, apart, config, _client, _auth_token, lastSet, retry_count, headers,
                   attempts, sent>>

\* the attempt ends with a transport failure that is retried while retries remain
TransportFailure(kind, error) ==
    /\ pc = "awaiting"
    /\ last' = Failure(kind)
    /\ IF ShouldRetry(retry_count, config.max_retries)
       THEN /\ sleeps' = Append(sleeps, Backoff(retry_count))
            /\ pc' = "sleeping"
            /\ UNCHANGED result
       ELSE /\ result' = Raised(error)
            /\ pc' = "raised"
            /\ UNCHANGED sleeps
    /\ UNCHANGED <<live, scope, sync, apart, config, _client, _auth_token, lastSet, retry_count, headers,
                   attempts, sent>>

\* except httpx.TimeoutException
Timeout ==
    /\ TransportFailure("timeout", HermesTimeoutError("Request timed out"))
    /\ timeouts' = timeouts + 1
    /\ UNCHANGED connects

\* a transport that retries timeouts only: a connection error is raised at once
ConnectError_NoRetry ==
    /\ pc = "awaiting"
    /\ last' = Failure("connect")
    /\ result' = Raised(HermesConnectionError("Connection failed"))
    /\ pc' = "raised"
    /\ connects' = connects + 1
    /\ UNCHANGED <<live, scope, sync, apart, config, _client, _auth_token, lastSet, retry_count, headers,
                   attempts, sent, timeouts, sleeps>>

\* except httpx.ConnectError
ConnectError ==
    /\ TransportFailure("connect", HermesConnectionError("Connection failed"))
    /\ connects' = connects + 1
    /\ UNCHANGED timeouts

\* a transport that retries every failure of the HTTP library
HTTPError_Retried ==
    /\ TransportFailure("http", HermesAPIError("HermesAPIError", "HTTP error", NoKwargs))
    /\ UNCHANGED <<timeouts, connects>>

\* except httpx.HTTPError
HTTPError ==
    /\ pc = "awaiting"
    /\ last' = Failure("http")
    /\ result' = Raised(HermesAPIError("HermesAPIError", "HTTP error", NoKwargs))
    /\ pc' = "raised"
    /\ UNCHANGED <<live, scope, sync, apart, config, _client, _auth_token, lastSet, retry_count, headers,
                   attempts, sent, timeouts, connects, sleeps>>

\* asyncio.sleep is over: return await self.request(..., retry_count=retry_count + 1)
Retry ==
    /\ pc = "sleeping"
    /\ Enter(retry_count + 1, headers)
    /\ sync' = SyncAfterAttempt(sync)
    /\ UNCHANGED <<apart, config, _auth_token, lastSet, timeouts, connects, last,
                   result, sleeps, scope>>

\* the caller has the response or the exception; the transport is free again
Finish ==
    /\ pc \in {"returned", "raised"}
    /\ sync.active => sync.done
    /\ sync' = NoSync
    /\ pc' = "idle"
    /\ retry_count' = 0
    /\ headers' = Absent
    /\ attempts' = 0
    /\ sent' = Absent
    /\ timeouts' = 0
    /\ connects' = 0
    /\ last' = NoOutcome
    /\ result' = NoResult
    /\ sleeps' = <<>>
    /\ UNCHANGED <<live, scope, apart, config, _client, _auth_token, lastSet>>

\* DocumentsAPI.get: asyncio.run(self._async_client.documents.get(doc_id)); the
\* coroutine runs up to the await of its first attempt
SyncCall ==
    /\ pc = "idle"
    /\ ~sync.active
    /\ Enter(0, Absent)
    /\ sync' = [active |-> TRUE, stale |-> _client.open, invocations |-> 1,
                attempts |-> 1, done |-> FALSE, outcome |-> FacadeReturned(NoDocument)]
    /\ UNCHANGED <<apart, config, _auth_token, lastSet, timeouts, connects, last,
                   result, sleeps, scope>>

\* the session was opened under the event loop of an earlier asyncio.run, which
\* is closed by now: the attempt may die with a RuntimeError no handler catches
StaleLoop ==
    /\ pc = "awaiting"
    /\ sync.active
    /\ sync.stale
    /\ last' = Failure("loop")
    /\ result' = Raised(BuiltinError("RuntimeError", "Event loop is closed"))
    /\ pc' = "raised"
    /\ UNCHANGED <<live, scope, sync, apart, config, _client, _auth_token, lastSet, retry_count,
                   headers, attempts, sent, timeouts, connects, sleeps>>

\* a wrapper that invokes the coroutine a second time when the first one raised
SyncReturn_Again ==
    /\ pc \in {"returned", "raised"}
    /\ sync.active
    /\ ~sync.done
    /\ IF documents_get(result).raised /\ sync.invocations < 2
       THEN /\ Enter(0, Absent)
            /\ sync' = [sync EXCEPT !.invocations = @ + 1, !.attempts = @ + 1]
            /\ UNCHANGED <<timeouts, connects, last, result, sleeps>>
       ELSE /\ sync' = [sync EXCEPT !.done = TRUE, !.outcome = documents_get(result)]
            /\ UNCHANGED <<live, _client, request_vars>>
    /\ UNCHANGED <<apart, config, _auth_token, lastSet, scope>>

\* asyncio.run returns what the coroutine returned, or raises what it raised
SyncReturn ==
    /\ pc \in {"returned", "raised"}
    /\ sync.active
    /\ ~sync.done
    /\ sync' = [sync EXCEPT !.done = TRUE, !.outcome = documents_get(result)]
    /\ UNCHANGED <<live, scope, apart, config, _client, _auth_token, lastSet, request_vars>>

\* HermesConfig(timeout=timeout, max_retries=max_retries, log_level=log_level)
Construct(timeout, max_retries, log_level) ==
    /\ call' = [op |-> "HermesConfig", timeout |-> timeout, max_retries |-> max_retries,
                log_level |-> log_level,
                out |-> HermesConfig(timeout, max_retries, log_level)]
    /\ UNCHANGED <<client_vars, validator_vars, harness_vars>>

\* HermesConfig(base_url=base_url, api_version=api_version), then get_api_url(path)
\* and get_api_url("/" + path)
GetApiUrl(base_url, api_version, path) ==
    /\ call' = [op |-> "get_api_url", base_url |-> base_url, api_version |-> api_version,
                path |-> path,
                url |-> get_api_url(validate_base_url(base_url), api_version, path),
                url_slash |-> get_api_url(validate_base_url(base_url), api_version,
                                          <<"/">> \o path)]
    /\ UNCHANGED <<client_vars, validator_vars, harness_vars>>

\* Document(title="Test", **kwargs).full_doc_number
FullDocNumber(kwargs) ==
    /\ call' = [op |-> "full_doc_number", kwargs |-> kwargs,
                doc |-> Document_init(kwargs),
                out |-> full_doc_number(Document_init(kwargs))]
    /\ UNCHANGED <<client_vars, validator_vars, harness_vars>>

\* AsyncDocumentsAPI.update(doc_id, **fields), up to the await of its first
\* attempt: the fields are validated, the body is dumped, the PATCH is issued
Update(fields) ==
    /\ pc = "idle"
    /\ IF DocumentPatchRequest(fields).ok
       THEN /\ Enter(0, Absent)
            /\ call' = [op |-> "update", fields |-> fields, raised |-> FALSE,
                        method |-> "PATCH",
                        json |-> model_dump(DocumentPatchRequest(fields).model)]
            /\ UNCHANGED <<config, _auth_token, lastSet, timeouts, connects, last,
                           result, sleeps, scope, sync, validator_vars, harness_vars>>
       ELSE /\ call' = [op |-> "update", fields |-> fields, raised |-> TRUE,
                        method |-> Absent, json |-> << >>]
            /\ UNCHANGED <<client_vars, validator_vars, harness_vars>>

\* the state the validator's operations leave alone
wait_frame == <<client_vars, call, harness_vars>>

\* HermesValidator.set_token_refresh(refresh_callback, expires_in_seconds)
SetTokenRefresh(expires_in_seconds) ==
    /\ wait.pc = "idle"
    /\ ~validator._token_refresh_callback
    /\ validator' = [validator EXCEPT !._token_refresh_callback = TRUE,
                                      !._token_expires_at =
                                          IntSome(clock + expires_in_seconds)]
    /\ UNCHANGED <<wait_frame, clock, index, wait>>

\* the indexer indexes one more document
Indexed ==
    /\ index < MaxIndexed
    /\ index' = index + 1
    /\ UNCHANGED <<wait_frame, clock, validator, wait>>

\* wait_for_indexing(expected_count, timeout): tenacity starts its clock and
\* the first attempt begins with _refresh_token_if_needed
WaitForIndexing(expected_count, timeout, fresh) ==
    /\ wait.pc = "idle"
    /\ wait' = [NoWait EXCEPT !.pc = "polling", !.expected_count = expected_count,
                              !.timeout = timeout, !.start = clock, !.polls = 1]
    /\ validator' = BeginsAttempt(validator, clock, fresh)
    /\ UNCHANGED <<wait_frame, clock, index>>

\* tenacity after an attempt that raised error: reraise it, or sleep
AfterFailure(error, now) ==
    wait' = [wait EXCEPT !.error = error,
                         !.pc = IF StopAfterDelay(wait.start, now)
                                THEN "raised" ELSE "sleeping"]

\* the search answers after duration seconds with results.nb_hits
PollCount(duration) ==
    /\ wait.pc = "polling"
    /\ clock' = clock + duration
    /\ IF index >= wait.expected_count
       THEN wait' = [wait EXCEPT !.pc = "returned", !.result = IntSome(index),
                                 !.error = NoError]
       ELSE AfterFailure(ValidationError("Only actual_count/expected_count indexed"),
                         clock')
    /\ UNCHANGED <<wait_frame, index, validator>>

\* the search raises after duration seconds
PollRaises(duration, e) ==
    /\ wait.pc = "polling"
    /\ clock' = clock + duration
    /\ AfterFailure(AttemptError(e), clock')
    /\ UNCHANGED <<wait_frame, index, validator>>

\* wait_fixed(5) is over: the next attempt begins with _refresh_token_if_needed
Wake(fresh) ==
    /\ wait.pc = "sleeping"
    /\ clock' = clock + PollInterval
    /\ wait' = [wait EXCEPT !.pc = "polling", !.polls = @ + 1]
    /\ validator' = BeginsAttempt(validator, clock', fresh)
    /\ UNCHANGED <<wait_frame, index>>

\* check_health(): self.client.get_web_config() through the client built in
\* __init__; True, False on a HermesError, any other exception escapes
CheckHealth(answer) ==
    /\ wait.pc # "polling" /\ wait.pc # "sleeping"
    /\ validator' = [validator EXCEPT !.requested =
          [op |-> "check_health", token |-> validator.client_token,
           raised |-> answer # NoError /\ ~IsHermesError(answer.type),
           value |-> IF answer = NoError THEN "True"
                     ELSE IF IsHermesError(answer.type) THEN "False"
                     ELSE answer.type]]
    /\ UNCHANGED <<wait_frame, clock, index, wait>>

\* get_document_stats, assert_search_results, assert_document_exists,
\* assert_document_content: Hermes(auth_token=config.hermes_auth_token), one
\* query, a HermesError wrapped into ValidationError
FreshClientCall(op, answer) ==
    /\ wait.pc # "polling" /\ wait.pc # "sleeping"
    /\ validator' = [validator EXCEPT !.requested =
          [op |-> op, token |-> validator.hermes_auth_token,
           raised |-> answer # NoError,
           value |-> IF answer = NoError THEN "returned" ELSE Wrapped(answer)]]
    /\ UNCHANGED <<wait_frame, clock, index, wait>>

\* somebody else writes a file below the workspaces directory
Stray(path) ==
    /\ path \notin PathsOf(fs.files)
    /\ fs' = [dirs |-> fs.dirs \cup Ancestors(path),
              files |-> fs.files \cup {File(path, NoContent)}]
    /\ UNCHANGED <<client_vars, call, validator_vars, issued, scenario>>

\* WorkspaceSeeder.clean_workspace(workspace)
CleanWorkspace(workspace) ==
    /\ fs' = clean_workspace(fs, workspace)
    /\ call' = [op |-> "clean_workspace", workspace |-> workspace]
    /\ UNCHANGED <<client_vars, validator_vars, issued, scenario>>

\* WorkspaceSeeder.seed_basic(count, workspace, clean)
SeedBasic(count, workspace, clean) ==
    /\ issued + count <= MaxUuids
    /\ LET done == seed_basic(fs, issued, count, workspace, clean)
       IN /\ fs' = done.fs
          /\ issued' = done.issued
          /\ call' = [op |-> "seed_basic", count |-> count, workspace |-> workspace,
                      clean |-> clean, out |-> done.out]
    /\ UNCHANGED <<client_vars, validator_vars, scenario>>

\* WorkspaceSeeder.seed_migration(count, source_workspace, target_workspace, clean)
SeedMigration(count, source_workspace, target_workspace, clean) ==
    /\ issued + count <= MaxUuids
    /\ LET done == seed_migration(fs, issued, count, source_workspace,
                                  target_workspace, clean)
       IN /\ fs' = done.fs
          /\ issued' = done.issued
          /\ call' = [op |-> "seed_migration", count |-> count,
                      source_workspace |-> source_workspace,
                      target_workspace |-> target_workspace,
                      clean |-> clean, out |-> done.out]
    /\ UNCHANGED <<client_vars, validator_vars, scenario>>

\* run_basic_scenario(count, clean, wait_for_indexing),
\* run_migration_scenario(count, clean), run_multi_author_scenario(count, clean)
\* is called
RunScenario(kind, count, clean, wait_for_indexing) ==
    /\ scenario.pc \in {"idle", "returned", "raised"}
    /\ scenario.runs < MaxRuns
    /\ wait.pc \notin {"polling", "sleeping"}
    /\ kind # "basic" => wait_for_indexing
    /\ issued + count <= MaxUuids
    /\ scenario' = [NoScenario EXCEPT !.kind = kind, !.pc = "health",
                                      !.runs = scenario.runs + 1, !.count = count,
                                      !.clean = clean,
                                      !.wait_for_indexing = wait_for_indexing]
    /\ UNCHANGED <<client_vars, call, validator_vars, fs, issued>>

\* the first step on the result of check_health alone
AssertHealthy_Unchecked(answer) ==
    /\ scenario.pc = "health"
    /\ validator' = [validator EXCEPT !.requested =
          [op |-> "check_health", token |-> validator.client_token,
           raised |-> answer # NoError /\ ~IsHermesError(answer.type),
           value |-> IF answer = NoError THEN "True"
                     ELSE IF IsHermesError(answer.type) THEN "False"
                     ELSE answer.type]]
    /\ scenario' = IF answer = NoError \/ IsHermesError(answer.type)
                   THEN [scenario EXCEPT !.pc = "seed", !.steps = Append(@, "health")]
                   ELSE [scenario EXCEPT !.pc = "raised", !.steps = Append(@, "health"),
                                         !.error = answer.type]
    /\ UNCHANGED <<client_vars, call, clock, index, wait, fs, issued>>

\* step 1, validator.assert_healthy(): check_health() answers True, or False on
\* a HermesError and assert_healthy raises ValidationError, or another
\* exception escapes; either exception leaves the scenario
AssertHealthy(answer) ==
    /\ scenario.pc = "health"
    /\ validator' = [validator EXCEPT !.requested =
          [op |-> "check_health", token |-> validator.client_token,
           raised |-> answer # NoError /\ ~IsHermesError(answer.type),
           value |-> IF answer = NoError THEN "True"
                     ELSE IF IsHermesError(answer.type) THEN "False"
                     ELSE answer.type]]
    /\ scenario' = IF answer = NoError
                   THEN [scenario EXCEPT !.pc = "seed", !.steps = Append(@, "health")]
                   ELSE [scenario EXCEPT !.pc = "raised", !.steps = Append(@, "health"),
                                         !.error = Wrapped(answer)]
    /\ UNCHANGED <<client_vars, call, clock, index, wait, fs, issued>>

\* step 2: seeder.seed_basic(count, clean), seed_migration(count, clean) or
\* seed_multi_author(count, clean) with their default workspaces
Seed ==
    /\ scenario.pc = "seed"
    /\ LET done == IF scenario.kind = "basic"
                   THEN seed_basic(fs, issued, scenario.count, "testing", scenario.clean)
                   ELSE IF scenario.kind = "migration"
                   THEN seed_migration(fs, issued, scenario.count, "docs", "testing",
                                       scenario.clean)
                   ELSE seed_multi_author(fs, issued, scenario.count, "testing",
                                          scenario.clean)
       IN /\ fs' = done.fs
          /\ issued' = done.issued
          /\ scenario' = [scenario EXCEPT
                 !.pc = IF scenario.wait_for_indexing THEN "poll" ELSE "stats",
                 !.steps = Append(@, "seed"),
                 !.expected = IF scenario.kind = "migration"
                              THEN Len(done.out[1]) + Len(done.out[2])
                              ELSE scenario.count]
    /\ UNCHANGED <<client_vars, call, validator_vars>>

\* step 3 begins: validator.wait_for_indexing(expected) inside try
StartPoll(fresh) ==
    /\ scenario.pc = "poll"
    /\ wait' = [NoWait EXCEPT !.pc = "polling", !.expected_count = scenario.expected,
                              !.start = clock, !.polls = 1]
    /\ validator' = BeginsAttempt(validator, clock, fresh)
    /\ scenario' = [scenario EXCEPT !.pc = "polling", !.steps = Append(@, "poll")]
    /\ UNCHANGED <<client_vars, call, clock, index, fs, issued>>

\* step 3 without the try: an exception of the wait leaves the scenario
PollDone_Propagates ==
    /\ scenario.pc = "polling"
    /\ wait.pc \in {"returned", "raised"}
    /\ scenario' = IF wait.pc = "raised"
                   THEN [scenario EXCEPT !.pc = "raised", !.poll = wait.pc,
                                         !.error = wait.error.type]
                   ELSE [scenario EXCEPT !.pc = "stats", !.poll = wait.pc]
    /\ UNCHANGED <<client_vars, call, validator_vars, fs, issued>>

\* step 3 ends: wait_for_indexing returned, or raised and except Exception
\* caught it
PollDone ==
    /\ scenario.pc = "polling"
    /\ wait.pc \in {"returned", "raised"}
    /\ scenario' = [scenario EXCEPT !.pc = "stats", !.poll = wait.pc]
    /\ UNCHANGED <<client_vars, call, validator_vars, fs, issued>>

\* step 4: stats = validator.get_document_stats(); the migration and the
\* multi-author scenario return stats after it
GetDocumentStats(answer) ==
    /\ scenario.pc = "stats"
    /\ validator' = [validator EXCEPT !.requested =
          [op |-> "get_document_stats", token |-> validator.hermes_auth_token,
           raised |-> answer # NoError,
           value |-> IF answer = NoError THEN "returned" ELSE Wrapped(answer)]]
    /\ scenario' =
          IF answer # NoError
          THEN [scenario EXCEPT !.pc = "raised", !.steps = Append(@, "stats"),
                                !.error = Wrapped(answer)]
          ELSE IF scenario.kind = "basic"
          THEN [scenario EXCEPT !.pc = "searches", !.steps = Append(@, "stats"),
                                !.stats = IntSome(index)]
          ELSE [scenario EXCEPT !.pc = "returned", !.steps = Append(@, "stats"),
                                !.stats = IntSome(index), !.returned = IntSome(index)]
    /\ UNCHANGED <<client_vars, call, clock, index, wait, fs, issued>>

\* step 5 of the basic scenario: assert_search_results(query, min_results=0)
\* for the four test queries, then return stats; answer is what the first
\* query that raises raises
SampleSearches(answer) ==
    /\ scenario.pc = "searches"
    /\ validator' = [validator EXCEPT !.requested =
          [op |-> "assert_search_results", token |-> validator.hermes_auth_token,
           raised |-> answer # NoError,
           value |-> IF answer = NoError THEN "returned" ELSE Wrapped(answer)]]
    /\ scenario' =
          IF answer # NoError
          THEN [scenario EXCEPT !.pc = "raised", !.steps = Append(@, "searches"),
                                !.error = Wrapped(answer)]
          ELSE [scenario EXCEPT !.pc = "returned", !.steps = Append(@, "searches"),
                                !.returned = scenario.stats]
    /\ UNCHANGED <<client_vars, call, clock, index, wait, fs, issued>>

\* one client, its session and its requests, whatever the server answers
Next ==
    \/ Start
    \/ Close
    \/ \E h \in CallHeaders : Request(h)
    \/ \E response \in Responses : Respond(response)
    \/ Timeout
    \/ ConnectError
    \/ HTTPError
    \/ Retry
    \/ Finish

Spec == Init /\ [][Next]_vars

\* an attempt in flight comes to an end
Outcome ==
    \/ \E response \in Responses : Respond(response)
    \/ Timeout
    \/ ConnectError
    \/ HTTPError

\* the same client when httpx ends every attempt and every sleep is woken
SpecFair == Spec /\ WF_vars(Outcome) /\ WF_vars(Retry)

\* the same client used inside and outside an async with block, with its token
\* swapped at any point, also between the attempts of a request and while an
\* attempt is in flight
NextRotation ==
    \/ Start
    \/ Close
    \/ AEnter
    \/ AExit
    \/ \E token \in SwapTokens : SetAuthToken(token)
    \/ \E h \in CallHeaders : Request(h)
    \/ \E response \in RotationResponses : Respond(response)
    \/ Timeout
    \/ ConnectError
    \/ HTTPError
    \/ Retry
    \/ Finish

SpecRotation == InitRotation /\ [][NextRotation]_vars

\* the synchronous client: one blocking call after the other on one transport
NextSync ==
    \/ SyncCall
    \/ \E response \in SyncResponses : Respond(response)
    \/ Timeout
    \/ ConnectError
    \/ HTTPError
    \/ StaleLoop
    \/ Retry
    \/ SyncReturn
    \/ Finish

SpecSync == InitRotation /\ [][NextSync]_vars

\* a client built with the default configuration
InitDefault == Constructed([auth_token |-> None, max_retries |-> 3])

\* configurations built and URLs derived, for all the arguments above
NextConfig ==
    \/ \E timeout \in Timeouts, max_retries \in RetryCounts, log_level \in LogLevels :
          Construct(timeout, max_retries, log_level)
    \/ \E base_url \in BaseUrls, api_version \in ApiVersions, path \in Paths :
          GetApiUrl(base_url, api_version, path)

SpecConfig == InitDefault /\ [][NextConfig]_vars

\* documents built and their numbers derived
NextModels == \E kwargs \in DocumentKwargs : FullDocNumber(kwargs)

SpecModels == InitDefault /\ [][NextModels]_vars

\* document updates, one after the other, on one transport
NextUpdate ==
    \/ \E fields \in Kwargs : Update(fields)
    \/ \E response \in SyncResponses : Respond(response)
    \/ Timeout
    \/ ConnectError
    \/ HTTPError
    \/ Retry
    \/ Finish

SpecUpdate == InitRotation /\ [][NextUpdate]_vars

\* one wait for the index, with or without a refresh callback
NextIndexing ==
    \/ \E expires_in_seconds \in ExpiresIn : SetTokenRefresh(expires_in_seconds)
    \/ Indexed
    \/ \E expected_count \in ExpectedCounts, timeout \in WaitTimeouts,
          fresh \in CallbackOutcomes : WaitForIndexing(expected_count, timeout, fresh)
    \/ \E duration \in PollDurations : PollCount(duration)
    \/ \E duration \in PollDurations, e \in SearchFailures : PollRaises(duration, e)
    \/ \E fresh \in CallbackOutcomes : Wake(fresh)

SpecIndexing == InitDefault /\ [][NextIndexing]_vars

\* one seeder on workspaces that others write to as well
NextSeeding ==
    \/ \E path \in StrayPaths : Stray(path)
    \/ \E workspace \in Workspaces \cup {"all"} : CleanWorkspace(workspace)
    \/ \E count \in 0..MaxCount, workspace \in Workspaces, clean \in BOOLEAN :
          SeedBasic(count, workspace, clean)
    \/ \E count \in 0..MaxCount, source_workspace \in Workspaces,
          target_workspace \in Workspaces, clean \in BOOLEAN :
          SeedMigration(count, source_workspace, target_workspace, clean)

SpecSeeding == InitDefault /\ [][NextSeeding]_vars

\* a runner with its seeder and its validator on workspaces that hold files
\* of others before the scenario begins
NextScenario ==
    \/ \E path \in StrayPaths : scenario.pc = "idle" /\ Stray(path)
    \/ \E kind \in ScenarioKinds, count \in ScenarioCounts, clean \in BOOLEAN,
          wait_for_indexing \in BOOLEAN :
          RunScenario(kind, count, clean, wait_for_indexing)
    \/ \E answer \in ValidatorAnswers : AssertHealthy(answer)
    \/ Seed
    \/ \E fresh \in CallbackOutcomes : StartPoll(fresh)
    \/ Indexed
    \/ PollCount(30)
    \/ \E e \in ValidatorFailures : PollRaises(30, e)
    \/ \E fresh \in CallbackOutcomes : Wake(fresh)
    \/ PollDone
    \/ \E answer \in ValidatorAnswers : GetDocumentStats(answer)
    \/ \E answer \in ValidatorAnswers : SampleSearches(answer)

SpecScenario == InitDefault /\ [][NextScenario]_vars

\* a validator with a refresh callback: one wait with slow polls, and its
\* other requests before and after
NextRefresh ==
    \/ \E expires_in_seconds \in ExpiresIn : SetTokenRefresh(expires_in_seconds)
    \/ Indexed
    \/ \E fresh \in CallbackOutcomes : WaitForIndexing(1, IntNone, fresh)
    \/ PollCount(30)
    \/ \E e \in ValidatorFailures : PollRaises(30, e)
    \/ \E fresh \in CallbackOutcomes : Wake(fresh)
    \/ \E answer \in ValidatorAnswers : CheckHealth(answer)
    \/ \E op \in FreshClientCalls, answer \in ValidatorAnswers :
          FreshClientCall(op, answer)

SpecRefresh == InitDefault /\ [][NextRefresh]_vars

(***************************************************************************)
(* Properties of the retry loop                                            *)
(***************************************************************************)
Terminated == pc \in {"returned", "raised"}
Succeeded(outcome) == outcome.kind = "response" /\ outcome.status < 400
ErrorResponse(outcome) == outcome.kind = "response" /\ outcome.status >= 400

\* C1: when the first k attempts of a request time out, k <= max_retries, the
\* request does not give up on a timeout but makes attempt k+1; when that
\* attempt returns a success response, the request returns this response and
\* the transport has issued exactly k+1 attempts.
C1_TimeoutsThenSuccess ==
    (Terminated /\ connects = 0 /\ timeouts <= config.max_retries) =>
        /\ last.kind # "timeout"
        /\ Succeeded(last) =>
              /\ pc = "returned"
              /\ ~result.raised
              /\ result.response = last
              /\ attempts = timeouts + 1

\* two timeouts, then a 200, with max_retries = 2: returned after 3 attempts
C1_Witness ==
    /\ pc = "returned"
    /\ config.max_retries = 2
    /\ timeouts = 2
    /\ connects = 0
    /\ attempts = 3
    /\ result.response.status = 200

\* C2: when every attempt of a request times out, the request fails with
\* HermesTimeoutError after exactly max_retries + 1 attempts, for every
\* max_retries in 0..10: it neither gives up earlier nor tries again.
C2_AllTimeouts ==
    /\ (connects = 0 /\ timeouts > config.max_retries) =>
          /\ pc = "raised"
          /\ result.raised
          /\ result.error.type = "HermesTimeoutError"
          /\ attempts = config.max_retries + 1
          /\ timeouts = attempts
    /\ (Terminated /\ connects = 0 /\ last.kind = "timeout") =>
          timeouts = config.max_retries + 1

\* three timeouts with max_retries = 2: HermesTimeoutError after 3 attempts
C2_Witness ==
    /\ pc = "raised"
    /\ config.max_retries = 2
    /\ timeouts = 3
    /\ connects = 0
    /\ attempts = 3
    /\ result.error.type = "HermesTimeoutError"

\* C3: when every attempt of a request fails with a connection error, the
\* request fails with HermesConnectionError after exactly max_retries + 1
\* attempts.
C3_AllConnectErrors ==
    /\ (timeouts = 0 /\ connects > config.max_retries) =>
          /\ pc = "raised"
          /\ result.raised
          /\ result.error.type = "HermesConnectionError"
          /\ attempts = config.max_retries + 1
          /\ connects = attempts
    /\ (Terminated /\ timeouts = 0 /\ last.kind = "connect") =>
          connects = config.max_retries + 1

\* three connection errors with max_retries = 2: HermesConnectionError
C3_Witness ==
    /\ pc = "raised"
    /\ config.max_retries = 2
    /\ connects = 3
    /\ timeouts = 0
    /\ attempts = 3
    /\ result.error.type = "HermesConnectionError"

\* C4: a response with status >= 400 is never retried: once it is received
\* the request has raised the error _handle_error_response maps it to, no
\* wait and no attempt follow it, whatever max_retries is and however many
\* transport failures were retried before it.
C4_ErrorResponseNotRetried ==
    ErrorResponse(last) =>
        /\ pc = "raised"
        /\ result.raised
        /\ result.error = _handle_error_response(last)
        /\ attempts = timeouts + connects + 1
        /\ Len(sleeps) = timeouts + connects

\* a 500 after a retried timeout and a retried connection error, with eight
\* retries left
C4_Witness ==
    /\ pc = "raised"
    /\ config.max_retries = 10
    /\ last.kind = "response"
    /\ last.status = 500
    /\ timeouts = 1
    /\ connects = 1
    /\ attempts = 3

(***************************************************************************)
(* Properties of the error mapping                                         *)
(***************************************************************************)
\* C7: a response with status 401 or 403 makes the request fail with
\* HermesAuthError, and a request fails with HermesAuthError only after such
\* a response.
C7_AuthErrorIff401Or403 ==
    Terminated =>
        ((result.raised /\ result.error.type = "HermesAuthError")
            <=> (last.kind = "response" /\ last.status \in {401, 403}))

\* a 403 raised as HermesAuthError
C7_Witness ==
    /\ pc = "raised"
    /\ last.kind = "response"
    /\ last.status = 403
    /\ result.error.type = "HermesAuthError"
    /\ result.error.message = "Permission denied: Resource not found"

\* C5: a response with status 404 makes the request (and so the document
\* fetch that awaits it) fail with HermesNotFoundError.
C5_NotFoundOn404 ==
    (Terminated /\ last.kind = "response" /\ last.status = 404) =>
        /\ result.raised
        /\ result.error.type = "HermesNotFoundError"

\* C6: a response with status 429 makes the request fail with
\* HermesRateLimitError whose retry_after is the integer of the Retry-After
\* header when the header is present (60 for "60") and None when it is absent.
C6_RateLimitOn429 ==
    (Terminated /\ last.kind = "response" /\ last.status = 429
                /\ last.retry_after \in {Absent, "60"}) =>
        /\ result.raised
        /\ result.error.type = "HermesRateLimitError"
        /\ result.error.fields.retry_after =
              (IF last.retry_after = "60" THEN IntSome(60) ELSE IntNone)

\* the error gives the caller this value under this name, as an attribute or
\* as an entry of its context
Exposes(error, name, value) ==
    \/ name \in DOMAIN error.fields /\ error.fields[name] = value
    \/ name \in DOMAIN error.context /\ error.context[name] = value

\* C8: every error raised for a response with status >= 400 exposes the
\* response's status code and its raw body.
C8_ErrorCarriesStatusAndBody ==
    (Terminated /\ ErrorResponse(last)) =>
        /\ result.raised
        /\ Exposes(result.error, "status_code", IntSome(last.status))
        /\ Exposes(result.error, "response_body", last.text)

Taxonomy == {"HermesAuthError", "HermesNotFoundError", "HermesRateLimitError",
             "HermesAPIError", "HermesConnectionError", "HermesTimeoutError"}

\* C9: every failure request() surfaces is one of the errors of the closed
\* taxonomy, for every status >= 400, header, body and transport failure.
C9_ClosedTaxonomy ==
    (Terminated /\ result.raised) => result.error.type \in Taxonomy

(***************************************************************************)
(* Properties of the token swap                                            *)
(***************************************************************************)
\* a step that hands an attempt to httpx
Issues == attempts' = attempts + 1

\* C10 as stated: after set_auth_token(t), every attempt issued before the
\* next swap carries "Authorization: Bearer t".
C10_EveryAttemptCarriesToken ==
    [][(Issues /\ lastSet # NeverSet) => sent' = "Bearer " \o lastSet]_vars

\* C10, amended: after set_auth_token(t) with a non-empty t, called at any
\* point, every attempt issued before the next swap by a request that passes
\* no Authorization of its own in headers= carries "Authorization: Bearer t".
C10_AttemptCarriesNonEmptyToken ==
    [][(Issues /\ lastSet # NeverSet /\ lastSet # "" /\ headers' = Absent)
          => sent' = "Bearer " \o lastSet]_vars

\* a retry, after two swaps, of a request of a client built with another
\* token: the attempt in flight carries the token of the second swap
C10_Witness ==
    /\ pc = "awaiting"
    /\ retry_count = 1
    /\ headers = Absent
    /\ config.auth_token = "test-token"
    /\ lastSet = "newer-token"
    /\ _auth_token = "newer-token"
    /\ sent = "Bearer newer-token"

(***************************************************************************)
(* Properties of the session and of the configuration                      *)
(***************************************************************************)
\* C11: the transport holds at most one session at any time; start() opens
\* one only when none is open and changes nothing otherwise, close() discards
\* the open one and changes nothing when none is open, every attempt is
\* issued on an open session, and the step that leaves the async with block
\* leaves the session closed.
C11_SessionLifecycle ==
    /\ [](live \in {0, 1} /\ (_client.open <=> live = 1))
    /\ [][ /\ (Start /\ _client.open) => UNCHANGED vars
           /\ (Start /\ ~_client.open) => (_client'.open /\ live' = 1)
           /\ (Close /\ _client.open) => (~_client'.open /\ live' = 0)
           /\ (Close /\ ~_client.open) => UNCHANGED vars
           /\ Issues => (_client'.open /\ live' = 1)
           /\ (scope = "inside" /\ scope' = "left") => (~_client'.open /\ live' = 0)
         ]_vars

\* a request was answered inside an async with block, the block was left and
\* no session is open
C11_Witness ==
    /\ scope = "left"
    /\ pc = "returned"
    /\ ~_client.open
    /\ live = 0

\* C12: the k-th wait of a request lasts 2^(k-1) seconds (1, 2, 4, ...), there
\* are at most max_retries waits, each between two attempts: none before the
\* first attempt and none after the last one.
C12_ExponentialBackoff ==
    /\ \A k \in 1..Len(sleeps) : sleeps[k] = 2 ^ (k - 1)
    /\ Len(sleeps) <= config.max_retries
    /\ pc = "idle" => sleeps = <<>>
    /\ pc = "sleeping" => Len(sleeps) = attempts
    /\ pc \in {"awaiting", "returned", "raised"} => Len(sleeps) = attempts - 1

\* four failed attempts with max_retries = 3: waits of 1, 2 and 4 seconds
C12_Witness ==
    /\ pc = "raised"
    /\ config.max_retries = 3
    /\ attempts = 4
    /\ last.kind = "timeout"
    /\ sleeps = <<1, 2, 4>>

\* C17: no operation of the client (start, close, request with its retries,
\* set_auth_token, entering and leaving the async with block) changes the
\* configuration; a token swap leaves its auth_token as constructed.
C17_ConfigUnchanged == [][config' = config]_vars

\* the token was swapped after a retried request and the configuration still
\* holds the token it was built with
C17_Witness ==
    /\ config.auth_token = "test-token"
    /\ lastSet = "new-token"
    /\ _auth_token = "new-token"
    /\ _client.open
    /\ pc = "returned"
    /\ attempts = 2

(***************************************************************************)
(* Properties of the synchronous facade                                    *)
(***************************************************************************)
\* C13: a call of a synchronous facade method invokes the asynchronous method
\* exactly once, sees exactly the HTTP attempts of that one invocation, and
\* returns what it returned or raises what it raised, unchanged.
C13_SyncIsOneAsyncCall ==
    sync.active =>
        /\ sync.invocations = 1
        /\ sync.attempts = attempts
        /\ sync.done => (Terminated /\ sync.outcome = documents_get(result))

\* a synchronous fetch whose first attempt timed out returned the document of
\* the second attempt
C13_Witness ==
    /\ sync.done
    /\ ~sync.outcome.raised
    /\ sync.outcome.document.title = "Test Document"
    /\ sync.attempts = 2
    /\ timeouts = 1

(***************************************************************************)
(* Properties of the configuration                                         *)
(***************************************************************************)
\* C14 as stated: constructing a configuration fails whenever timeout < 0, or
\* the retry count is outside [0,10], or the log level is not one of DEBUG,
\* INFO, WARNING, ERROR, CRITICAL, and succeeds otherwise.
C14_ValidationExactLevel ==
    call.op = "HermesConfig" =>
        (call.out.ok <=> /\ call.timeout >= 0
                         /\ call.max_retries \in 0..10
                         /\ call.log_level \in valid_levels)

\* C14, amended: constructing a configuration fails with a validation error
\* whenever timeout < 0, or the retry count is outside [0,10], or the log
\* level, compared without regard to case, is not one of DEBUG, INFO, WARNING,
\* ERROR, CRITICAL; it succeeds otherwise, and stores the level in upper case.
C14_Validation ==
    call.op = "HermesConfig" =>
        /\ call.out.ok <=> /\ call.timeout >= 0
                           /\ call.max_retries \in 0..10
                           /\ \E level \in valid_levels : upper(call.log_level) = level
        /\ ~call.out.ok => call.out.error = "ValidationError"
        /\ call.out.ok => call.out.config.log_level \in valid_levels

\* a configuration with log_level "debug" was built and holds "DEBUG"
C14_Witness ==
    /\ call.op = "HermesConfig"
    /\ call.log_level = <<"d", "e", "b", "u", "g">>
    /\ call.max_retries = 10
    /\ call.out.ok
    /\ call.out.config.log_level = <<"D", "E", "B", "U", "G">>

AllSlashes(s) == \A i \in 1..Len(s) : s[i] = "/"
\* s is t followed by slashes only, and t does not end with a slash
TrailingStripped(s, t) ==
    /\ Len(t) <= Len(s)
    /\ SubSeq(s, 1, Len(t)) = t
    /\ AllSlashes(SubSeq(s, Len(t) + 1, Len(s)))
    /\ (t # <<>> => t[Len(t)] # "/")
\* s is slashes only followed by t, and t does not start with a slash
LeadingStripped(s, t) ==
    /\ Len(t) <= Len(s)
    /\ SubSeq(s, Len(s) - Len(t) + 1, Len(s)) = t
    /\ AllSlashes(SubSeq(s, 1, Len(s) - Len(t)))
    /\ (t # <<>> => t[1] # "/")

\* C15: get_api_url("/" + p) equals get_api_url(p), and the result is the base
\* URL without its trailing slashes, "/api/", the API version, "/" and the
\* path without its leading slashes, so that one slash separates the parts.
C15_ApiUrl ==
    call.op = "get_api_url" =>
        /\ call.url_slash = call.url
        /\ \E b \in BaseUrls, p \in Paths :
              /\ TrailingStripped(call.base_url, b)
              /\ LeadingStripped(call.path, p)
              /\ call.url = b \o <<"/", "a", "p", "i", "/">> \o call.api_version
                              \o <<"/">> \o p

\* base URL "h/" and path "/d": "h/api/v2/d", as for path "//d"
C15_Witness ==
    /\ call.op = "get_api_url"
    /\ call.base_url = <<"h", "/">>
    /\ call.path = <<"/", "d">>
    /\ call.url = <<"h", "/", "a", "p", "i", "/", "v", "2", "/", "d">>
    /\ call.url_slash = call.url

(***************************************************************************)
(* Properties of the partial update                                        *)
(***************************************************************************)
\* C16 as stated: the JSON body of the PATCH request of a document update
\* contains exactly the fields the caller supplied, none of them null.
C16_BodyIsSuppliedFields ==
    (call.op = "update" /\ ~call.raised) =>
        /\ DOMAIN call.json = DOMAIN call.fields
        /\ \A f \in DOMAIN call.json : ~call.json[f].none

\* C16, amended: a document update whose fields pass validation sends a PATCH
\* request whose JSON body contains exactly the supplied fields whose value is
\* not None, with the values supplied; a field supplied as None is left out
\* like a field not supplied, so nothing is sent as null.  Fields that fail
\* validation send no request.
C16_PatchBody ==
    call.op = "update" =>
        /\ call.raised <=>
              \/ \E f \in DOMAIN call.fields : f \notin PatchFields
              \/ /\ "status" \in DOMAIN call.fields
                 /\ ~call.fields["status"].none
                 /\ call.fields["status"].value \notin DocumentStatuses
        /\ call.raised => (call.method = Absent /\ (pc = "idle" => attempts = 0))
        /\ ~call.raised =>
              /\ call.method = "PATCH"
              /\ pc # "idle" => attempts >= 1
              /\ DOMAIN call.json =
                    {f \in DOMAIN call.fields : ~call.fields[f].none}
              /\ \A f \in DOMAIN call.json :
                    /\ ~call.json[f].none
                    /\ f # "custom_fields" => call.json[f] = call.fields[f]
                    /\ f = "custom_fields" =>
                          /\ Len(call.json[f].items) = Len(call.fields[f].items)
                          /\ \A i \in 1..Len(call.json[f].items) :
                              /\ DOMAIN call.json[f].items[i] =
                                    {k \in DOMAIN call.fields[f].items[i] :
                                        ~call.fields[f].items[i][k].none}
                              /\ \A k \in DOMAIN call.json[f].items[i] :
                                    call.json[f].items[i][k] = call.fields[f].items[i][k]

\* update(title="Updated Title", summary=None) was answered: the body held the
\* title only
C16_Witness ==
    /\ call.op = "update"
    /\ ~call.raised
    /\ DOMAIN call.fields = {"title", "summary"}
    /\ call.fields["summary"].none
    /\ DOMAIN call.json = {"title"}
    /\ call.json["title"].value = "Updated Title"
    /\ pc = "returned"

(***************************************************************************)
(* Properties of the validator                                             *)
(***************************************************************************)
\* C18: wait_for_indexing returns a count n only after a poll observed
\* n >= expected, and when the budget of 120 s runs out first it raises a
\* ValidationError, whatever failures the polls produced.
C18_WaitForIndexing ==
    /\ wait.pc = "returned" =>
          (wait.result.some /\ wait.result.val >= wait.expected_count)
    /\ wait.pc = "raised" =>
          /\ clock - wait.start >= 120
          /\ wait.error.type = "validation.ValidationError"

\* C19: wait_for_indexing(expected, timeout=T) waits no longer once T seconds
\* have elapsed without the expected count, T being the configured maximum
\* wait when timeout is None: it sleeps only while less than T has elapsed, and
\* fails only when T has elapsed.
C19_TimeoutHonoured ==
    LET T == IF wait.timeout.some THEN wait.timeout.val ELSE IndexerMaxWait
    IN /\ wait.pc = "sleeping" => clock - wait.start < T
       /\ wait.pc = "raised" => clock - wait.start >= T

\* C20: at each indexing poll the refresh callback is invoked if and only if a
\* callback is configured and the time is within 5 minutes of, or past, the
\* estimated expiry; otherwise, and between polls, the callback is not invoked
\* and the token is not replaced.
C20_RefreshIffDue ==
    [][ LET begins == wait'.polls = wait.polls + 1
            due == /\ validator._token_refresh_callback
                   /\ validator._token_expires_at.some
                   /\ clock' >= validator._token_expires_at.val - 300
            invoked == validator'.invoked = validator.invoked + 1
            replaced == validator'.hermes_auth_token # validator.hermes_auth_token
        IN /\ begins => (invoked <=> due)
           /\ ~invoked => validator'.invoked = validator.invoked
           /\ invoked => begins
           /\ replaced => invoked
      ]_vars

\* a token with 330 s to live was refreshed once, at a later poll of a wait
\* that then saw the expected count
C20_Witness ==
    /\ wait.pc = "returned"
    /\ wait.polls >= 2
    /\ validator.invoked = 1
    /\ validator.hermes_auth_token = "fresh-token"
    /\ validator._token_expires_at.val > RefreshedLifetime

(***************************************************************************)
(* Properties of the retry budget                                          *)
(***************************************************************************)
\* C25: timeouts and connection errors draw on one retry budget: in any mix of
\* the two, a request issues at most max_retries + 1 attempts and then
\* terminates with a response or an error; when all attempts failed, the error
\* is the typed error of the kind of the last failure.
C25_SharedBudget ==
    /\ [](/\ attempts <= config.max_retries + 1
          /\ timeouts + connects <= config.max_retries + 1
          /\ (pc = "raised" /\ last.kind \in {"timeout", "connect"}) =>
                /\ timeouts + connects = attempts
                /\ attempts = config.max_retries + 1
                /\ result.error.type = IF last.kind = "timeout"
                                       THEN "HermesTimeoutError"
                                       ELSE "HermesConnectionError")
    /\ (pc = "awaiting" ~> Terminated)

\* max_retries = 2: a timeout, a connection error, a timeout, and the third
\* attempt's timeout is raised
C25_Witness ==
    /\ pc = "raised"
    /\ config.max_retries = 2
    /\ attempts = 3
    /\ timeouts = 2
    /\ connects = 1
    /\ last.kind = "timeout"
    /\ result.error.type = "HermesTimeoutError"

\* C26: a failure of the HTTP library that is neither a timeout nor a
\* connection error is never retried: the request fails on that attempt with a
\* HermesAPIError without status code, even when retries remain.
C26_OtherFailureNotRetried ==
    /\ last.kind = "http" =>
          /\ pc = "raised"
          /\ result.raised
          /\ result.error.type = "HermesAPIError"
          /\ ~result.error.fields.status_code.some
    /\ pc = "sleeping" => last.kind \in {"timeout", "connect"}

\* max_retries = 3: the first attempt timed out, the second failed otherwise
\* and was raised with two retries left
C26_Witness ==
    /\ pc = "raised"
    /\ last.kind = "http"
    /\ config.max_retries = 3
    /\ attempts = 2
    /\ timeouts = 1
    /\ result.error.type = "HermesAPIError"

C27_RequestsCarryRefreshedToken ==
    [][ LET issues == \/ \E answer \in ValidatorAnswers : CheckHealth(answer)
                      \/ \E op \in FreshClientCalls, answer \in ValidatorAnswers :
                            FreshClientCall(op, answer)
                      \/ wait'.polls = wait.polls + 1
        IN (issues /\ validator'.refreshed) =>
               validator'.requested.token = validator'.hermes_auth_token
      ]_vars

\* C28: when the refresh callback raises, the failure is swallowed: token and
\* estimated expiry stay as they are, the poll still issues its search request,
\* and the next poll invokes the callback again.
C28_RefreshFailureSwallowed ==
    [][ LET begins == wait'.polls = wait.polls + 1
        IN /\ (begins /\ validator'.refresh = "failed") =>
                 /\ validator'.invoked = validator.invoked + 1
                 /\ validator'.hermes_auth_token = validator.hermes_auth_token
                 /\ validator'._token_expires_at = validator._token_expires_at
                 /\ wait'.pc = "polling"
                 /\ validator'.requested.op = "wait_for_indexing"
                 /\ validator'.requested.token = validator.hermes_auth_token
           /\ (begins /\ validator.refresh = "failed") =>
                 validator'.invoked = validator.invoked + 1
      ]_vars

\* the callback raised at two polls in a row and returned a token at the third
C28_Witness ==
    /\ validator.invoked = 3
    /\ validator.refresh = "refreshed"
    /\ validator.hermes_auth_token = "fresh-token"
    /\ wait.polls = 3
    /\ wait.pc = "polling"

(***************************************************************************)
(* The seeder                                                              *)
(***************************************************************************)
\* the file a returned path names
FileAt(path) == CHOOSE f \in fs.files : f.path = path
\* the returned paths whose file is a document of the type
OfType(out, doc_type) ==
    {k \in 1..Len(out) : out[k] \in PathsOf(fs.files) /\ FileAt(out[k]).content.doc_type = doc_type}

\* C22: seed_basic(count) returns exactly count paths, no two the same, each
\* of them an existing file when it returns, with and without clean; count//3
\* of them are RFCs, count//3 are PRDs and count - 2*(count//3) are meeting
\* notes.
C22_SeedBasicReturnsCount ==
    call.op = "seed_basic" =>
        /\ Len(call.out) = call.count
        /\ Cardinality(Range(call.out)) = call.count
        /\ Range(call.out) \subseteq PathsOf(fs.files)
        /\ \A path \in Range(call.out) : path[1] = call.workspace
        /\ Cardinality(OfType(call.out, "RFC")) = call.count \div 3
        /\ Cardinality(OfType(call.out, "PRD")) = call.count \div 3
        /\ Cardinality(OfType(call.out, "Meeting Notes"))
               = call.count - 2 * (call.count \div 3)

\* seed_basic returned all three kinds of document after cleaning a workspace
\* that held a file of somebody else
C22_Witness ==
    /\ call.op = "seed_basic" /\ call.clean /\ call.count = 3
    /\ call.workspace = "testing"
    /\ <<"testing", "docs", "guides">> \in fs.dirs
    /\ <<"testing", "docs", "guides", "setup.md">> \notin PathsOf(fs.files)
    /\ Cardinality(OfType(call.out, "Meeting Notes")) = 1

\* the workspaces a clean_workspace argument names
Named(workspace) == IF workspace = "all" THEN Workspaces ELSE {workspace}

\* C23: after clean_workspace(ws) no regular file remains anywhere under the
\* directory of ws, every directory is still present and the files of every
\* other workspace are as they were; "all" names both workspaces.
C23_CleanWorkspace ==
    [][\A workspace \in Workspaces \cup {"all"} :
          CleanWorkspace(workspace) =>
              /\ \A f \in fs'.files : f.path[1] \notin Named(workspace)
              /\ fs'.dirs = fs.dirs
              /\ {f \in fs'.files : f.path[1] \notin Named(workspace)}
                    = {f \in fs.files : f.path[1] \notin Named(workspace)}]_vars

\* the testing workspace was cleaned of a file two directories down, and the
\* docs workspace kept its file
C23_Witness ==
    /\ call.op = "clean_workspace" /\ call.workspace = "testing"
    /\ <<"testing", "docs", "guides">> \in fs.dirs
    /\ \A f \in fs.files : f.path[1] # "testing"
    /\ <<"docs", "rfcs", "RFC-001-migration.md">> \in PathsOf(fs.files)

\* C30: seed_migration(count) with distinct source and target workspaces
\* leaves, for each i, a source and a target document with the same UUID and
\* different title, status and author; different i have different UUIDs; both
\* returned lists have count existing files.
C30_MigrationPairs ==
    (call.op = "seed_migration" /\ call.source_workspace # call.target_workspace) =>
        LET source == call.out[1]
            target == call.out[2]
        IN /\ Len(source) = call.count /\ Len(target) = call.count
           /\ Range(source) \cup Range(target) \subseteq PathsOf(fs.files)
           /\ Cardinality(Range(source)) = call.count
           /\ Cardinality(Range(target)) = call.count
           /\ \A i \in 1..call.count :
                 /\ source[i][1] = call.source_workspace
                 /\ target[i][1] = call.target_workspace
                 /\ FileAt(source[i]).content.uuid = FileAt(target[i]).content.uuid
                 /\ FileAt(source[i]).content.uuid # 0
                 /\ FileAt(source[i]).content.title # FileAt(target[i]).content.title
                 /\ FileAt(source[i]).content.status # FileAt(target[i]).content.status
                 /\ FileAt(source[i]).content.author # FileAt(target[i]).content.author
           /\ \A i, j \in 1..call.count :
                 i # j => FileAt(source[i]).content.uuid # FileAt(source[j]).content.uuid

\* two pairs were written from docs to testing
C30_Witness ==
    /\ call.op = "seed_migration" /\ call.count = 2
    /\ call.source_workspace = "docs" /\ call.target_workspace = "testing"
    /\ FileAt(call.out[2][2]).content.status = "In-Review"

(***************************************************************************)
(* The scenario runner                                                     *)
(***************************************************************************)
\* the place of a step in the order of the scenarios
Rank(step) ==
    CASE step = "health" -> 1 [] step = "seed" -> 2 [] step = "poll" -> 3
      [] step = "stats" -> 4 [] step = "searches" -> 5

\* the steps a scenario that returned has gone through
StepsOf(kind, wait_for_indexing) ==
    IF kind = "basic"
    THEN IF wait_for_indexing THEN <<"health", "seed", "poll", "stats", "searches">>
         ELSE <<"health", "seed", "stats", "searches">>
    ELSE <<"health", "seed", "poll", "stats">>

\* C21: in each of the three scenarios the steps happen in the order health
\* check, seed, poll for indexing, statistics collection, sample searches, the
\* searches only in the basic scenario; and once a scenario has begun, no file
\* is written or deleted in any workspace except by its seed step, which
\* comes directly after a health check that answered True.
C21_StepsInOrder ==
    /\ [](/\ \A i, j \in 1..Len(scenario.steps) :
                i < j => Rank(scenario.steps[i]) < Rank(scenario.steps[j])
          /\ (scenario.steps # << >> => scenario.steps[1] = "health")
          /\ (\E i \in 1..Len(scenario.steps) : scenario.steps[i] = "searches")
                => scenario.kind = "basic"
          /\ scenario.pc = "returned"
                => scenario.steps = StepsOf(scenario.kind, scenario.wait_for_indexing))
    /\ [][(scenario.pc # "idle" /\ fs' # fs) =>
             /\ scenario.steps = <<"health">>
             /\ validator.requested.op = "check_health"
             /\ validator.requested.value = "True"
             /\ scenario'.steps = <<"health", "seed">>]_vars

\* a second basic scenario returned after its five steps, having cleaned the
\* workspace of the files of the first
C21_Witness ==
    /\ scenario.kind = "basic" /\ scenario.pc = "returned" /\ scenario.runs = 2
    /\ scenario.clean
    /\ Len(scenario.steps) = 5
    /\ \E f \in fs.files : f.content.uuid = 2
    /\ \A f \in fs.files : f.path[1] = "testing" => f.content.uuid # 1

\* C29: whatever the outcome of the indexing poll (it returned, it raised after
\* the time allowed, it raised another exception), the next step of the
\* scenario is statistics collection, and a scenario that returns returns the
\* statistics collected; a health check that did not pass ends the scenario
\* with an exception, nothing seeded.
C29_PollFailureDoesNotAbort ==
    /\ [][(scenario.pc = "polling" /\ scenario'.pc # "polling")
             => (scenario'.pc = "stats" /\ scenario'.poll = wait.pc)]_vars
    /\ [](scenario.pc = "returned" =>
             /\ scenario.returned.some
             /\ scenario.returned = scenario.stats
             /\ validator.requested.value = "returned")
    /\ [][(scenario.pc = "health" /\ scenario'.pc # "health"
              /\ validator'.requested.value # "True")
             => (scenario'.pc = "raised" /\ fs' = fs /\ issued' = issued)]_vars
    /\ [][scenario.pc = "raised"
             => (scenario' = scenario \/ scenario'.runs = scenario.runs + 1)]_vars

\* a migration scenario returned its statistics after a poll that raised
C29_Witness ==
    /\ scenario.kind = "migration" /\ scenario.pc = "returned"
    /\ scenario.poll = "raised" /\ wait.pc = "raised"
    /\ scenario.returned.some

====
